---------------------------- MODULE Spec2Model ----------------------------
(***************************************************************************)
(* Digital FTE: the watchers (scripts/base_watcher.py,                     *)
(* scripts/filesystem_watcher.py, scripts/gmail_watcher.py) and the        *)
(* orchestrator's Ralph loop (scripts/orchestrator.py).                    *)
(*                                                                         *)
(* Each script runs as its own process.  `component` names the process    *)
(* whose steps a behaviour follows; the other actors (files dropped into   *)
(* the drop folder, the mailbox, the external agent, the clock, process    *)
(* kills) are environment actions.  A reader of Needs_Action can look at   *)
(* any state, so what a reader may find is what an invariant states.       *)
(*                                                                         *)
(* A handler that performs several I/O calls is one action per I/O call,   *)
(* in the order of the source, so that a kill or an I/O error can fall     *)
(* between any two of them.                                                *)
(***************************************************************************)
EXTENDS Integers, Sequences, FiniteSets, TLC

\* ------------------------------------------------------------------ bounds
MaxClock == 1
MaxDrops == 2
MaxIter == 2
\* process kills and failed I/O calls in one behaviour, taken together
MaxDisturbances == 1
\* worker processes the supervisor launches in one behaviour
MaxStarts == 2
\* pieces concatenated into one text handed to get_priority
MaxPieces == 2

\* ------------------------------------------------------- program constants
\* base_watcher.py:181  name[:100]
MaxNameLen == 100

\* gmail_watcher.py:266  subject[:50]
SubjectCut == 50
\* gmail_watcher.py:212  maxResults=10
MaxResults == 10
\* orchestrator.py:316  proc.wait(timeout=5)
GracePeriod == 5

None == "None"

\* base_watcher.py:176  invalid_chars
\* The eighth character of the literal is U+FF1F (fullwidth question mark),
\* not the ASCII question mark; it is written here by its code point.
InvalidChars == {"<", ">", ":", "\"", "/", "\\", "|", "U+FF1F", "*"}

\* --------------------------------------------------------------- universe
\* Paths that can appear in the drop folder: stem and extension.
FilePaths ==
    { [stem |-> <<"r", ":">>, ext |-> "pdf"],
      [stem |-> <<"r", ":">>, ext |-> "md"] }

\* Messages that can arrive in the mailbox, and their Subject header.
MessageIds == {"m1", "m2"}
Subject(m) == << "r", ":" >>

\* Content hashes (hashlib.sha256 of the content: equal content, equal hash).
Hashes == {"h1", "h2"}

VARIABLES
    component,        \* which script's process this behaviour follows
    dry_run,          \* BaseWatcher.dry_run / Orchestrator.dry_run
    clock,            \* datetime.now() in whole seconds
    needs_action,     \* vault/Needs_Action: entry name -> content
    downstream,       \* In_Progress, Pending_Approval, Approved, Done: stage -> entry names
    missing,          \* stage directories that do not exist
    drop_folder,      \* FilesystemWatcher.drop_folder: path -> content hash
    unreadable,       \* paths in the drop folder that cannot be opened
    use_watchdog,     \* FilesystemWatcher.use_watchdog
    events,           \* watchdog events not yet handled by DropFolderHandler
    processed_files,  \* FilesystemWatcher.processed_files
    hashes_file,      \* Logs/filesystem_processed_hashes.txt
    mailbox,          \* unread messages matching the query: set of message ids
    backlog,          \* further unread messages matching the query, materialized before
    idle_polls,       \* history: polls in a row, since the process started or last
                      \* handled an item, that returned no item; modulo 2
    processed_ids,    \* GmailWatcher.processed_ids
    ids_file,         \* Logs/gmail_processed_ids.txt
    pc,               \* position of the watcher process
    items,            \* items of the current cycle still to handle (run loop)
    cur,              \* the candidate being handled, or None
    ret,              \* what the last handling call returned
    written,          \* history: identifiers whose record was written whole
    failed,           \* history: candidates whose handling raised since the last poll
    drops,            \* number of files dropped / messages arrived / items added
    crashes,          \* number of process kills so far
    faults,           \* number of I/O calls that failed so far
    max_iterations,   \* Orchestrator.max_iterations
    check_file_movement, \* ralph_loop's parameter
    agent_present,    \* whether the `claude` executable can be found
    credentials,      \* GmailWatcher: a valid token or a credentials.json exists
    iteration,        \* ralph_loop: iteration
    needs_action_count,  \* ralph_loop: needs_action_count of the current cycle
    completed,        \* ralph_loop: state['completed']
    last_output,      \* ralph_loop: state['last_output']
    last_length,      \* ralph_loop: len(state['last_output'])
    state_file,       \* Plans/RALPH_STATE_<started>.md
    invocations,      \* history: subprocess.run calls made by ralph_loop
    satisfied,        \* history: Needs_Action was empty or the token was output
    processes,        \* Orchestrator.processes: watcher name -> Popen handle (0: no entry)
    launched,         \* number of worker processes launched so far (the pids 1..launched)
    alive,            \* worker processes that are running
    kind,             \* pid -> the watcher script the worker runs
    worker_ledger,    \* pid -> the worker's in-memory ledger
    ledger_files,     \* watcher name -> content of that kind's ledger file
    materialized,     \* history: << kind, identifier >> -> records written for it
    waited            \* stop_watcher: seconds spent in proc.wait(timeout=5)

vars == << component, dry_run, clock, needs_action, downstream, missing, drop_folder, unreadable,
           use_watchdog, events, processed_files, hashes_file, mailbox, backlog, idle_polls,
           processed_ids, ids_file, pc, items, cur, ret, written, failed, drops,
           crashes, faults, max_iterations, check_file_movement, agent_present,
           credentials, iteration,
           needs_action_count, completed, last_output, last_length, state_file, invocations,
           satisfied, processes, launched, alive, kind, worker_ledger,
           ledger_files, materialized, waited >>


\* ------------------------------------------------------------ pure helpers
RECURSIVE ReplaceInvalid(_)
ReplaceInvalid(name) ==
    IF name = <<>> THEN <<>>
    ELSE << IF Head(name) \in InvalidChars THEN "_" ELSE Head(name) >>
         \o ReplaceInvalid(Tail(name))

\* BaseWatcher.sanitize_filename
sanitize_filename(name) ==
    LET r == ReplaceInvalid(name)
    IN  IF Len(r) > MaxNameLen THEN SubSeq(r, 1, MaxNameLen) ELSE r

\* datetime.now().strftime('%Y%m%d_%H%M%S'): the clock cut to whole seconds
Timestamp == clock

\* f"FILE_{safe_name}_{timestamp}.md" in Needs_Action
ActionFilename(path) ==
    [prefix |-> "FILE", label |-> sanitize_filename(path.stem),
     stamp |-> Timestamp, ext |-> "md"]

\* f"EMAIL_{safe_subject}_{timestamp}.md" in Needs_Action
EmailFilename(m) ==
    LET subject == Subject(m)
        cut == IF Len(subject) > SubjectCut THEN SubSeq(subject, 1, SubjectCut)
               ELSE subject
    IN  [prefix |-> "EMAIL", label |-> sanitize_filename(cut),
         stamp |-> Timestamp, ext |-> "md"]

\* self.needs_action / filepath.name: the payload copy keeps the file's name
DestPath(path) ==
    [prefix |-> "", label |-> path.stem, stamp |-> -1, ext |-> path.ext]

Record(id, whole) == [kind |-> "record", id |-> id, whole |-> whole]
Payload(id) == [kind |-> "payload", id |-> id, whole |-> TRUE]

\* the stages after intake (orchestrator.py:89-92)
DownstreamStages == {"In_Progress", "Pending_Approval", "Approved", "Done"}

\* a variant in which the adapters write into the Done folder
IntakeStageDone == "Done"

\* self.needs_action = self.vault_path / 'Needs_Action' (base_watcher.py:50):
\* the folder every path an adapter writes to is built from
IntakeStage == "Needs_Action"

\* write_text / copy2 to <vault>/<stage>/<name>
Put(stage, name, content) ==
    IF stage = "Needs_Action"
    THEN needs_action' = (name :> content) @@ needs_action
         /\ UNCHANGED << downstream, missing >>
    ELSE downstream' = [downstream EXCEPT ![stage] = @ \cup {name}]
         /\ UNCHANGED << needs_action, missing >>

\* entries of Needs_Action that are action records carrying identifier id
RecordsOf(id) ==
    { n \in DOMAIN needs_action :
        needs_action[n].kind = "record" /\ needs_action[n].id = id }

\* a variant in which the dry-run test is never taken
ShortCircuitNever == FALSE

\* `if self.dry_run: ... else:` (filesystem_watcher.py:396, gmail_watcher.py:326,
\* orchestrator.py:557 and 586): persistent side effects happen only when FALSE
ShortCircuit == dry_run

\* a variant in which the action record is written before the payload is copied
ProcessFileOrderRecordFirst == << "open", "write", "copy", "admit", "save", "saving" >>

\* a variant of process_file that admits and saves before it copies and writes
ProcessFileOrderAdmitFirst == << "admit", "save", "saving", "copy", "open", "write" >>

\* the I/O calls of process_file's else-branch, in source order
\*   copy: shutil.copy2            open, write: action_path.write_text
\*   admit: processed_files.add    save, saving: _save_processed_files
ProcessFileOrder == << "copy", "open", "write", "admit", "save", "saving" >>

\* the I/O calls of GmailWatcher.create_action_file's else-branch, in source
\* order (lines 334-336)
CreateActionFileOrder == << "open", "write", "admit", "save", "saving" >>

\* the position after step s of a handler whose steps are `order`
StepAfter(order, s) ==
    LET i == CHOOSE k \in 1..Len(order) : order[k] = s
    IN  IF i = Len(order) THEN "return" ELSE order[i + 1]

Watchers == {"filesystem", "gmail"}


\* --------------------------------------------------------------- frames
config == << component, dry_run, use_watchdog, max_iterations, check_file_movement,
            agent_present, credentials, backlog >>
fs_vars == << drop_folder, events, processed_files, hashes_file >>
gmail_vars == << mailbox, processed_ids, ids_file, idle_polls >>
ralph_vars == << iteration, needs_action_count, completed, last_output, last_length,
                 state_file,
                 invocations, satisfied >>
\* what a watcher's run loop can hold as an item
Candidates == IF component = "filesystem" THEN FilePaths ELSE MessageIds

\* what no step of the filesystem watcher touches, and likewise for the others
sup_vars == << processes, launched, alive, kind, worker_ledger, ledger_files,
              materialized, waited >>
not_fs == << config, sup_vars, gmail_vars, ralph_vars >>
not_gmail == << config, sup_vars, fs_vars, ralph_vars >>
not_watcher == << pc, items, cur, ret, written, failed, crashes, faults >>

\* positions of a watcher process that is not running: killed, or stopped by
\* a KeyboardInterrupt
Down == {"crashed", "stopped"}

\* leave step s of the handler: the next I/O call, or return the path
Leave(order, s) ==
    LET next == StepAfter(order, s)
    IN  IF next = "return"
        THEN pc' = "idle" /\ cur' = None /\ ret' = "path"
        ELSE pc' = next /\ UNCHANGED << cur, ret >>

\* a variant of the except clause that reports success
RaiseReturningPath == pc' = "idle" /\ cur' = None /\ ret' = "path"

\* `except Exception as e: ... return None`
Raise == pc' = "idle" /\ cur' = None /\ ret' = None

\* An I/O call succeeds (ok) or fails with an exception.
Fault(ok) ==
    IF ok THEN faults' = faults
    ELSE crashes + faults < MaxDisturbances /\ faults' = faults + 1

\* The running adapter's ledger: the set in memory and the ledger file.
Ledger ==
    IF component = "filesystem"
    THEN [memory |-> processed_files, file |-> hashes_file]
    ELSE [memory |-> processed_ids, file |-> ids_file]

\* The candidate in hand: its path or message, its identifier, the name of its
\* record, and (history) the ledger as the call found it.
InHand(item, id, action) ==
    [path |-> item, id |-> id, action |-> action, before |-> Ledger]

\* ------------------------------------------------------------ environment
\* A file appears in the drop folder (or an existing one is replaced).  With the
\* watchdog observer running, DropFolderHandler gets an event for it.
\* The handler reads the drop folder in its first step and in copy2 only, so a
\* drop during a later step is the same as a drop after the handler returns.
\* Without the observer, a drop while the process is down is the same as a drop
\* right after it starts.  Contents are told apart by equality only, so the
\* first file dropped has the first of them.
Drop(p, h, readable) ==
    /\ component = "filesystem"
    /\ pc \in {"idle", "copy"} \cup (IF use_watchdog THEN Down ELSE {})
    /\ drops < MaxDrops
    /\ drops = 0 => h = CHOOSE first \in Hashes : TRUE
    /\ drops' = drops + 1
    /\ drop_folder' = (p :> h) @@ drop_folder
    /\ unreadable' = IF readable THEN unreadable \ {p} ELSE unreadable \cup {p}
    /\ events' = IF use_watchdog /\ pc \notin Down THEN Append(events, p) ELSE events
    /\ UNCHANGED << not_fs, clock, needs_action, downstream, missing, processed_files, hashes_file, pc,
                    items, cur, ret, written, failed, crashes, faults >>

\* One second passes.  Handlers read the clock in their first step only, so a
\* tick during a later step, or while the process is down, is the same as a tick
\* after the handler returns or the process starts.
Tick ==
    /\ component \in Watchers
    /\ pc = "idle"
    /\ clock < MaxClock
    /\ clock' = clock + 1
    /\ UNCHANGED << config, sup_vars, fs_vars, gmail_vars, ralph_vars, not_watcher, needs_action, downstream, missing,
                    unreadable, drops >>

\* ------------------------------------------------- drop-folder entries
\* What can appear in the drop folder, as the two modes' filters see it:
\* a directory or a file, a name starting with '.' or not, and the extension.
Entries == [ is_directory : BOOLEAN, hidden : BOOLEAN, ext : {"pdf", "tmp"} ]

\* the entry of a path of the model: a regular file
EntryOf(p) == [ is_directory |-> FALSE, hidden |-> Head(p.stem) = ".", ext |-> p.ext ]

\* DropFolderHandler.on_created, lines 78-85: directories, hidden names and
\* names whose suffix ends in '.tmp' are skipped.
OnCreatedAccepts(e) ==
    /\ ~e.is_directory
    /\ ~(e.hidden \/ e.ext = "tmp")

\* FilesystemWatcher.check_for_updates, line 255:
\* `filepath.is_file() and not filepath.name.startswith('.')`
PollAccepts(e) ==
    /\ ~e.is_directory
    /\ ~e.hidden

\* the modes that hand entry e to process_file
Modes == {"push", "poll"}
Handed(e) ==
    { mode \in Modes : IF mode = "push" THEN OnCreatedAccepts(e) ELSE PollAccepts(e) }

\* ----------------------------------------------------- FilesystemWatcher
\* a variant of the except clause that returns what the loop had listed
PollFailedKeepingListing(listing) == listing

\* check_for_updates: `except Exception as e: ... return []`
\* (filesystem_watcher.py:262-264, gmail_watcher.py:241-243)
PollFailed(listing) == {}

\* FilesystemWatcher.check_for_updates, called by BaseWatcher.run when the
\* previous cycle's items are all handled.  listable = FALSE: the drop folder
\* is missing or cannot be listed and iterdir() raises.  One unreadable file
\* raises inside the loop.  Both end in the except clause.
FilesystemWatcher_check_for_updates(listable) ==
    /\ component = "filesystem" /\ ~use_watchdog
    /\ pc = "idle" /\ items = {}
    /\ Fault(listable)
    /\ LET new_files == { p \in DOMAIN drop_folder :
                            PollAccepts(EntryOf(p)) /\ drop_folder[p] \notin processed_files }
       IN  items' = IF ~listable \/ unreadable \cap DOMAIN drop_folder # {}
                    THEN PollFailed(new_files)
                    ELSE new_files
    /\ failed' = {}
    /\ UNCHANGED << not_fs, fs_vars, clock, needs_action, downstream, missing, unreadable, pc, cur, ret,
                    written, drops, crashes >>

\* FilesystemWatcher.process_file up to the dry-run test (lines 291-404):
\* hash, ledger lookup, metadata, names.
FilesystemWatcher_process_file(p) ==
    IF p \notin DOMAIN drop_folder \/ p \in unreadable
    THEN Raise /\ failed' = failed \cup {p}
    ELSE IF drop_folder[p] \in processed_files
    THEN Raise /\ UNCHANGED failed
    ELSE IF ShortCircuit
    THEN pc' = "idle" /\ cur' = None /\ ret' = "path" /\ UNCHANGED failed
    ELSE /\ cur' = InHand(p, drop_folder[p], ActionFilename(p))
         /\ pc' = Head(ProcessFileOrder)
         /\ ret' = "-" /\ UNCHANGED failed

\* DropFolderHandler.on_created
on_created ==
    /\ component = "filesystem" /\ use_watchdog
    /\ pc = "idle" /\ events # << >>
    /\ events' = Tail(events)
    /\ IF OnCreatedAccepts(EntryOf(Head(events)))
       THEN FilesystemWatcher_process_file(Head(events))
       ELSE UNCHANGED << pc, cur, ret, failed >>
    /\ UNCHANGED << not_fs, drop_folder, processed_files, hashes_file, clock,
                    needs_action, downstream, missing, unreadable, items, written, drops, crashes, faults >>

\* shutil.copy2(filepath, dest_path)
ProcessFileCopy(ok) ==
    /\ component = "filesystem" /\ pc = "copy"
    /\ Fault(ok)
    /\ IF ok /\ cur.path \in DOMAIN drop_folder /\ cur.path \notin unreadable
       THEN /\ Put(IntakeStage, DestPath(cur.path), Payload(drop_folder[cur.path]))
            /\ Leave(ProcessFileOrder, "copy")
            /\ UNCHANGED failed
       ELSE /\ Raise
            /\ failed' = failed \cup {cur.path}
            /\ UNCHANGED << needs_action, downstream, missing >>
    /\ UNCHANGED << not_fs, fs_vars, clock, unreadable, items, written, drops, crashes >>

\* action_path.write_text(content): open() creates or truncates the file
ProcessFileOpen(ok) ==
    /\ component = "filesystem" /\ pc = "open"
    /\ Fault(ok)
    /\ IF ok
       THEN /\ Put(IntakeStage, cur.action, Record(cur.id, FALSE))
            /\ Leave(ProcessFileOrder, "open")
            /\ UNCHANGED failed
       ELSE /\ Raise
            /\ failed' = failed \cup {cur.path}
            /\ UNCHANGED << needs_action, downstream, missing >>
    /\ UNCHANGED << not_fs, fs_vars, clock, unreadable, items, written, drops, crashes >>

\* action_path.write_text(content): write() and close()
ProcessFileWrite(ok) ==
    /\ component = "filesystem" /\ pc = "write"
    /\ Fault(ok)
    /\ IF ok
       THEN /\ Put(IntakeStage, cur.action, Record(cur.id, TRUE))
            /\ written' = written \cup {cur.id}
            /\ failed' = failed \ {cur.path}
            /\ Leave(ProcessFileOrder, "write")
       ELSE /\ Raise
            /\ failed' = failed \cup {cur.path}
            /\ UNCHANGED << needs_action, downstream, missing, written >>
    /\ UNCHANGED << not_fs, fs_vars, clock, unreadable, items, drops, crashes >>

\* self.processed_files.add(file_hash)
ProcessFileAdmit ==
    /\ component = "filesystem" /\ pc = "admit"
    /\ processed_files' = processed_files \cup {cur.id}
    /\ Leave(ProcessFileOrder, "admit")
    /\ UNCHANGED << not_fs, drop_folder, events, hashes_file, clock, needs_action, downstream, missing,
                    unreadable, items, written, failed, drops, crashes, faults >>

\* _save_processed_files: open(cache_file, 'w') truncates the ledger file; a
\* failure is logged and swallowed (lines 157-158)
SaveProcessedFilesOpen(ok) ==
    /\ component = "filesystem" /\ pc = "save"
    /\ Fault(ok)
    /\ IF ok
       THEN hashes_file' = {} /\ Leave(ProcessFileOrder, "save")
       ELSE UNCHANGED hashes_file /\ Leave(ProcessFileOrder, "saving")
    /\ UNCHANGED << not_fs, drop_folder, events, processed_files, clock, needs_action, downstream, missing,
                    unreadable, items, written, failed, drops, crashes >>

\* _save_processed_files: one line per hash; a failure part-way leaves some of
\* the lines and is swallowed
SaveProcessedFilesWrite(lines) ==
    /\ component = "filesystem" /\ pc = "saving"
    /\ lines \subseteq processed_files
    /\ Fault(lines = processed_files)
    /\ hashes_file' = lines
    /\ Leave(ProcessFileOrder, "saving")
    /\ UNCHANGED << not_fs, drop_folder, events, processed_files, clock, needs_action, downstream, missing,
                    unreadable, items, written, failed, drops, crashes >>

\* ----------------------------------------------------------- GmailWatcher
\* A message matching the query arrives unread; its metadata may be corrupt
\* (messages.get then has no payload headers).  An arrival while the process
\* is down is the same as an arrival right after it starts.
Arrive(m, intact) ==
    /\ component = "gmail"
    /\ pc = "idle"
    /\ drops < MaxDrops /\ m \notin mailbox
    /\ drops' = drops + 1
    /\ mailbox' = mailbox \cup {m}
    /\ unreadable' = IF intact THEN unreadable ELSE unreadable \cup {m}
    /\ UNCHANGED << not_gmail, processed_ids, ids_file, idle_polls, clock, needs_action,
                    downstream, missing, not_watcher >>

\* messages().list(q=query, maxResults=10): one page of the unread messages.
\* Nothing in the watcher marks a message as read (mark_as_read, lines 352-376,
\* has no caller), so a message that was materialized stays in the query's
\* result.  backlog counts such messages from earlier cycles: their ids are in
\* the ledger, and each of them takes a place on the page.  The page is given
\* by the messages of `mailbox` on it; the API call fixes no order.
ListMessages ==
    IF backlog + Cardinality(mailbox) <= MaxResults THEN {mailbox}
    ELSE { page \in SUBSET mailbox :
              /\ Cardinality(page) <= MaxResults
              /\ MaxResults - Cardinality(page) <= backlog }

\* GmailWatcher.check_for_updates.  Without credentials _authenticate returns
\* False and the call returns [] before any API call (lines 198-200);
\* reachable = FALSE is an API call that raises, and a message with corrupt
\* metadata raises inside the loop: both end in the except clause.
GmailWatcher_check_for_updates(reachable) ==
    /\ component = "gmail"
    /\ pc = "idle" /\ items = {}
    /\ Fault(credentials => reachable)
    /\ \E messages \in ListMessages :
         LET new_messages == { m \in messages : m \notin processed_ids }
         IN  items' = IF ~credentials THEN {}
                      ELSE IF ~reachable \/ new_messages \cap unreadable # {}
                      THEN PollFailed(new_messages)
                      ELSE new_messages
    /\ failed' = {}
    /\ idle_polls' = IF items' = {} THEN 1 - idle_polls ELSE 0
    /\ UNCHANGED << not_gmail, mailbox, processed_ids, ids_file, clock, needs_action, downstream,
                    missing, unreadable, pc, cur, ret, written, drops, crashes >>

\* GmailWatcher.create_action_file up to the dry-run test (lines 255-332).
\* The ledger is not consulted here.
GmailWatcher_create_action_file(m) ==
    IF ShortCircuit
    THEN pc' = "idle" /\ cur' = None /\ ret' = "path" /\ UNCHANGED failed
    ELSE /\ cur' = InHand(m, m, EmailFilename(m))
         /\ pc' = Head(CreateActionFileOrder)
         /\ ret' = "-" /\ UNCHANGED failed

\* create_action_file called with an item that an earlier check_for_updates
\* returned (the method is public; BaseWatcher.run is one caller among others).
CallCreateActionFile(m) ==
    /\ component = "gmail"
    /\ pc = "idle" /\ items = {}
    /\ m \in mailbox \ unreadable
    /\ GmailWatcher_create_action_file(m)
    /\ idle_polls' = 0
    /\ UNCHANGED << not_gmail, mailbox, processed_ids, ids_file, clock, needs_action, downstream,
                    missing, unreadable, items, written, drops, crashes, faults >>

\* filepath.write_text(content): open() creates or truncates the file
CreateActionFileOpen(ok) ==
    /\ component = "gmail" /\ pc = "open"
    /\ Fault(ok)
    /\ IF ok
       THEN /\ Put(IntakeStage, cur.action, Record(cur.id, FALSE))
            /\ Leave(CreateActionFileOrder, "open")
            /\ UNCHANGED failed
       ELSE /\ Raise
            /\ failed' = failed \cup {cur.path}
            /\ UNCHANGED << needs_action, downstream, missing >>
    /\ UNCHANGED << not_gmail, gmail_vars, clock, unreadable, items, written, drops,
                    crashes >>

\* filepath.write_text(content): write() and close()
CreateActionFileWrite(ok) ==
    /\ component = "gmail" /\ pc = "write"
    /\ Fault(ok)
    /\ IF ok
       THEN /\ Put(IntakeStage, cur.action, Record(cur.id, TRUE))
            /\ written' = written \cup {cur.id}
            /\ failed' = failed \ {cur.path}
            /\ Leave(CreateActionFileOrder, "write")
       ELSE /\ Raise
            /\ failed' = failed \cup {cur.path}
            /\ UNCHANGED << needs_action, downstream, missing, written >>
    /\ UNCHANGED << not_gmail, gmail_vars, clock, unreadable, items, drops, crashes >>

\* self.processed_ids.add(item['id'])
CreateActionFileAdmit ==
    /\ component = "gmail" /\ pc = "admit"
    /\ processed_ids' = processed_ids \cup {cur.id}
    /\ Leave(CreateActionFileOrder, "admit")
    /\ UNCHANGED << not_gmail, mailbox, idle_polls, ids_file, clock, needs_action, downstream, missing, unreadable,
                    items, written, failed, drops, crashes, faults >>

\* _save_processed_ids: open(cache_file, 'w') truncates the ledger file; a
\* failure is logged and swallowed (lines 129-130)
SaveProcessedIdsOpen(ok) ==
    /\ component = "gmail" /\ pc = "save"
    /\ Fault(ok)
    /\ IF ok
       THEN ids_file' = {} /\ Leave(CreateActionFileOrder, "save")
       ELSE UNCHANGED ids_file /\ Leave(CreateActionFileOrder, "saving")
    /\ UNCHANGED << not_gmail, mailbox, idle_polls, processed_ids, clock, needs_action, downstream, missing,
                    unreadable, items, written, failed, drops, crashes >>

\* _save_processed_ids: one line per id; a failure part-way leaves some of the
\* lines and is swallowed
SaveProcessedIdsWrite(lines) ==
    /\ component = "gmail" /\ pc = "saving"
    /\ lines \subseteq processed_ids
    /\ Fault(lines = processed_ids)
    /\ ids_file' = lines
    /\ Leave(CreateActionFileOrder, "saving")
    /\ UNCHANGED << not_gmail, mailbox, idle_polls, processed_ids, clock, needs_action, downstream, missing,
                    unreadable, items, written, failed, drops, crashes >>

\* ------------------------------------------------------------ BaseWatcher
\* create_action_file, the abstract method: FilesystemWatcher delegates to
\* process_file (filesystem_watcher.py:279)
create_action_file(item) ==
    IF component = "filesystem"
    THEN FilesystemWatcher_process_file(item)
    ELSE GmailWatcher_create_action_file(item)

\* BaseWatcher.run, the body of `for item in items` (lines 225-231)
RunLoopItem(p) ==
    /\ component \in Watchers
    /\ pc = "idle" /\ p \in items
    /\ items' = items \ {p}
    /\ IF dry_run
       THEN UNCHANGED << pc, cur, ret, failed >>
       ELSE create_action_file(p)
    /\ UNCHANGED << config, sup_vars, fs_vars, gmail_vars, ralph_vars,
                    clock, needs_action, downstream, missing, unreadable, written, drops, crashes, faults >>

\* ------------------------------------------------------- process lifetime
\* The watcher process ends where it is.  What is in memory is lost; a ledger
\* file being rewritten keeps the lines flushed so far.
ProcessEnds(position) ==
    /\ component \in Watchers
    /\ pc \notin Down /\ crashes + faults < MaxDisturbances
    /\ crashes' = crashes + 1
    /\ pc' = position /\ cur' = None /\ items' = {} /\ events' = << >>
    /\ processed_files' = {} /\ processed_ids' = {}
    /\ ret' = "-" /\ failed' = {} /\ idle_polls' = 0
    /\ IF pc = "saving"
       THEN \E lines \in SUBSET (processed_files \cup processed_ids) :
               IF component = "filesystem"
               THEN hashes_file' = lines /\ UNCHANGED ids_file
               ELSE ids_file' = lines /\ UNCHANGED hashes_file
       ELSE UNCHANGED << hashes_file, ids_file >>
    /\ UNCHANGED << config, sup_vars, ralph_vars, clock, needs_action, downstream, missing,
                    drop_folder, mailbox, unreadable, written, drops, faults >>

\* The watcher process is killed.
Crash == ProcessEnds("crashed")

\* Ctrl+C in a watcher process.  KeyboardInterrupt is not an Exception: it
\* passes the `except Exception` clauses of the handlers and of the inner try
\* of BaseWatcher.run and reaches the outer `except KeyboardInterrupt`, which
\* logs and returns: the statement it met is abandoned, with the items of the
\* cycle that were not handled yet.  With the watchdog observer running the
\* signal reaches the sleeping main thread and stop_observer joins the
\* observer thread, so a handler in progress runs to its end first.
WatcherInterrupt ==
    /\ use_watchdog => pc = "idle"
    /\ ProcessEnds("stopped")

\* Ctrl+C in ralph_loop: the function has no handler for KeyboardInterrupt
\* (the try at line 548 catches TimeoutExpired and Exception), so it leaves
\* the loop where it is and nothing after the loop runs.
RalphInterrupt ==
    /\ component = "orchestrator"
    /\ pc \in {"while", "invoke", "running", "save", "final"}
    /\ pc' = "interrupted"
    /\ UNCHANGED << config, sup_vars, fs_vars, gmail_vars, items, cur, ret, written, failed,
                    crashes, faults, clock, needs_action, downstream, missing, unreadable, drops,
                    iteration, needs_action_count, completed, last_output, last_length,
                    state_file, invocations, satisfied >>

KeyboardInterrupt == WatcherInterrupt \/ RalphInterrupt

\* a variant of the load that keeps the file's lines when the read fails
LoadLedgerKeeping(file, readable) == file

\* _load_processed_files / _load_processed_ids: the lines of the ledger file; a
\* missing file is an empty one, and a file that exists and cannot be read
\* (open or decoding raises) ends in `except Exception: ... = set()`.
LoadLedger(file, readable) == IF readable THEN file ELSE {}

\* The watcher is started again: __init__ with _load_processed_files /
\* _load_processed_ids.  The process that ended before it was counted as a
\* disturbance; the read of the ledger at the start after it is not counted
\* again.
Restart(readable) ==
    /\ component \in Watchers /\ pc \in Down
    /\ pc' = "idle"
    /\ processed_files' = LoadLedger(hashes_file, readable)
    /\ processed_ids' = LoadLedger(ids_file, readable)
    /\ UNCHANGED << config, sup_vars, ralph_vars, clock, needs_action, downstream, missing,
                    drop_folder, events, hashes_file, mailbox, idle_polls, ids_file, unreadable,
                    items, cur, ret, written, failed, drops, crashes, faults >>

\* ----------------------------------------------------------- Orchestrator
\* Records that other processes can put into Needs_Action while the loop runs.
StageItems ==
    { [prefix |-> "FILE", label |-> << "r", "_" >>, stamp |-> 0, ext |-> "md"],
      [prefix |-> "EMAIL", label |-> << "r", "_" >>, stamp |-> 0, ext |-> "md"] }

\* the stage directories of the vault that the model follows
Stages == {"Needs_Action"} \cup DownstreamStages

\* the names of the entries of a stage directory
Listing(stage) ==
    IF stage = "Needs_Action" THEN DOMAIN needs_action ELSE downstream[stage]

\* folder.glob('*.md')
Glob(stage) == { n \in Listing(stage) : n.ext = "md" }

\* a variant that answers a call after the first with what the call before it
\* returned
_count_filesReusing(folder) ==
    IF pc = "called" THEN cur.counts[folder]
    ELSE IF folder \in missing THEN 0
    ELSE Cardinality(Glob(folder))

\* Orchestrator._count_files: `if not folder.exists(): return 0`, then
\* len(list(folder.glob('*.md')))
_count_files(folder) ==
    IF folder \in missing THEN 0
    ELSE Cardinality(Glob(folder))

\* Paths are compared as strings: EMAIL_... comes before FILE_..., and under
\* one prefix and label the earlier stamp comes first.
PathBefore(a, b) ==
    \/ a.prefix = "EMAIL" /\ b.prefix = "FILE"
    \/ a.prefix = b.prefix /\ a.stamp < b.stamp

RECURSIVE sorted(_)
sorted(paths) ==
    IF paths = {} THEN << >>
    ELSE LET first == CHOOSE a \in paths : \A b \in paths \ {a} : PathBefore(a, b)
         IN  << first >> \o sorted(paths \ {first})

\* Orchestrator.get_needs_action_files: `if not self.needs_action.exists():
\* return []`, then sorted(self.needs_action.glob('*.md'))
get_needs_action_files ==
    IF "Needs_Action" \in missing THEN << >>
    ELSE sorted(Glob("Needs_Action"))

\* a variant of the loop test that runs one cycle more
LoopGuardInclusive == iteration <= max_iterations

\* a variant of the loop test that is passed once after the budget is spent
LoopGuardOnceMore == iteration < max_iterations \/ (iteration = max_iterations /\ ~completed)

\* `while iteration < self.max_iterations`
LoopGuard == iteration < max_iterations

\* a variant of the state check that ignores check_file_movement
CompletionDetectedAlways(count) == count = 0

\* a variant of the state check that never finds Needs_Action empty
CompletionDetectedNever(count) == check_file_movement /\ count < 0

\* `if check_file_movement and needs_action_count == 0`
CompletionDetected(count) == check_file_movement /\ count = 0

NoStateFile == [type |-> "absent", iteration |-> 0, completed |-> FALSE]

\* A watcher materializes an item while the loop runs.
ItemAdded(n) ==
    /\ component = "orchestrator" /\ pc # "done"
    /\ drops < MaxDrops /\ n \notin DOMAIN needs_action
    /\ drops' = drops + 1
    /\ Put(IntakeStage, n, Record("x", TRUE))
    /\ UNCHANGED << config, sup_vars, fs_vars, gmail_vars, not_watcher, clock,
                    unreadable, ralph_vars >>

\* The external agent or the operator moves an item out of Needs_Action into
\* a later stage.
ItemMoved(n, stage) ==
    /\ component = "orchestrator" /\ pc # "done"
    /\ n \in DOMAIN needs_action
    /\ needs_action' = [ k \in DOMAIN needs_action \ {n} |-> needs_action[k] ]
    /\ downstream' = [downstream EXCEPT ![stage] = @ \cup {n}]
    /\ UNCHANGED << config, sup_vars, fs_vars, gmail_vars, not_watcher, clock, unreadable, drops,
                    missing,
                    iteration, needs_action_count, completed, last_output, last_length,
                    state_file, invocations >>
    /\ satisfied' = (satisfied \/ _count_files("Needs_Action")' = 0)

\* ralph_loop lines 520-534: the loop test, the increment, the count and the
\* state check
RalphCycle ==
    /\ component = "orchestrator" /\ pc = "while"
    /\ IF LoopGuard
       THEN /\ iteration' = iteration + 1
            /\ needs_action_count' = _count_files("Needs_Action")
            /\ IF CompletionDetected(needs_action_count')
               THEN completed' = TRUE /\ pc' = "final"
               ELSE completed' = completed /\ pc' = "invoke"
       ELSE pc' = "final" /\ UNCHANGED << iteration, needs_action_count, completed >>
    /\ UNCHANGED << config, sup_vars, fs_vars, gmail_vars, items, cur, ret, written, failed,
                    crashes, faults, clock, needs_action, downstream, missing, unreadable, drops,
                    last_output, last_length, state_file, invocations, satisfied >>

\* ralph_loop lines 548-576: subprocess.run is called unless dry_run
RalphInvoke ==
    /\ component = "orchestrator" /\ pc = "invoke"
    /\ IF ShortCircuit
       THEN /\ last_output' = "Dry run - no output"
            /\ last_length' = Len(last_output')
            /\ pc' = "save"
            /\ UNCHANGED invocations
       ELSE /\ invocations' = invocations + 1
            /\ pc' = "running"
            /\ UNCHANGED << last_output, last_length >>
    /\ UNCHANGED << config, sup_vars, fs_vars, gmail_vars, items, cur, ret, written, failed,
                    crashes, faults, clock, needs_action, downstream, missing, unreadable, drops,
                    iteration, needs_action_count, completed, state_file, satisfied >>

\* what subprocess.run can do: return output without or with
\* <promise>TOKEN</promise> in it, raise TimeoutExpired, raise another error,
\* or raise FileNotFoundError because there is no `claude` executable
Outcomes ==
    IF agent_present THEN {"output", "promise", "timeout", "error"} ELSE {"absent"}

\* state['last_output'] after an invocation (lines 566, 580, 583)
LastOutput(outcome) ==
    CASE outcome = "timeout" -> "Timeout - retrying"
      [] outcome \in {"error", "absent"} -> "Error"
      [] outcome = "promise" -> "output with promise"
      [] OTHER -> "output"

\* `output[-1000:] if len(output) > 1000 else output` (line 566)
OutputCut == 1000

\* a variant that keeps the whole output
KeepLastWhole(length) == length

\* the length of `output[-1000:] if len(output) > 1000 else output`
KeepLast(length) == IF length > OutputCut THEN OutputCut ELSE length

\* Lengths that come from outside: of result.stdout + result.stderr for an
\* invocation that returns (output with the promise holds at least the 32
\* characters of <promise>TASK_COMPLETE</promise>), and of str(e) for the
\* exceptions that subprocess.run raises for this command line:
\*   FileNotFoundError  [Errno 2] No such file or directory: 'claude'   45
\*   OSError            [Errno 7] Argument list too long: 'claude'      42
\*   ValueError         embedded null byte                              18
\* Their messages name the executable and never the prompt or the output.
Lengths(outcome) ==
    CASE outcome = "output" -> {0, OutputCut - 1, OutputCut, OutputCut + 1}
      [] outcome = "promise" -> {32, OutputCut + 1}
      [] outcome = "absent" -> {45}
      [] outcome = "error" -> {18, 42}
      [] OTHER -> {0}

\* len(state['last_output']) after an invocation (lines 566, 580, 583)
LastLength(outcome, length) ==
    CASE outcome = "timeout" -> Len(LastOutput(outcome))
      [] outcome \in {"error", "absent"} -> Len("Error: ") + length
      [] OTHER -> KeepLast(length)

\* a variant in which a timeout ends the loop
AfterInvocationAborting(outcome) ==
    IF outcome \in {"promise", "timeout"} THEN "final" ELSE "save"

\* where ralph_loop goes after an invocation: `break` on the promise (line 572),
\* the state snapshot otherwise, the except clauses included (lines 578-586)
AfterInvocation(outcome) == IF outcome = "promise" THEN "final" ELSE "save"

\* ralph_loop lines 558-583: subprocess.run returns output, with or without the
\* completion promise, or raises TimeoutExpired or another exception
RalphReturn(outcome) ==
    /\ component = "orchestrator" /\ pc = "running"
    /\ outcome \in Outcomes
    /\ last_output' = LastOutput(outcome)
    /\ \E length \in Lengths(outcome) : last_length' = LastLength(outcome, length)
    /\ pc' = AfterInvocation(outcome)
    /\ IF outcome = "promise"
       THEN completed' = TRUE /\ satisfied' = TRUE
       ELSE UNCHANGED << completed, satisfied >>
    /\ UNCHANGED << config, sup_vars, fs_vars, gmail_vars, items, cur, ret, written, failed,
                    crashes, faults, clock, needs_action, downstream, missing, unreadable, drops,
                    iteration, needs_action_count, state_file, invocations >>

\* ralph_loop lines 585-609: the iteration snapshot, then time.sleep(2)
RalphSave ==
    /\ component = "orchestrator" /\ pc = "save"
    /\ state_file' = IF ShortCircuit THEN state_file
                     ELSE [type |-> "iteration", iteration |-> iteration,
                           completed |-> completed]
    /\ pc' = "while"
    /\ UNCHANGED << config, sup_vars, fs_vars, gmail_vars, items, cur, ret, written, failed,
                    crashes, faults, clock, needs_action, downstream, missing, unreadable, drops,
                    iteration, needs_action_count, completed, last_output, last_length,
                    invocations, satisfied >>

\* ralph_loop lines 611-643: the final status and the final state record
RalphFinal ==
    /\ component = "orchestrator" /\ pc = "final"
    /\ state_file' = IF ShortCircuit THEN state_file
                     ELSE [type |-> "final", iteration |-> iteration,
                           completed |-> completed]
    /\ pc' = "done"
    /\ UNCHANGED << config, sup_vars, fs_vars, gmail_vars, items, cur, ret, written, failed,
                    crashes, faults, clock, needs_action, downstream, missing, unreadable, drops,
                    iteration, needs_action_count, completed, last_output, last_length,
                    invocations, satisfied >>

\* ------------------------------------------- Orchestrator as supervisor
\* names that start_watcher and stop_watcher can be called with
WatcherNames == Watchers \cup {"calendar"}

\* identifiers of the candidates that the workers find in their sources
WorkItems == {"a", "b"}

\* -------------------------------------------------- the two modes' filters
\* One entry appears in the drop folder of a filesystem watcher; component
\* "filters" follows what each mode's filter does with it.
not_filters == << config, sup_vars, fs_vars, gmail_vars, ralph_vars, clock,
                   needs_action, downstream, missing, unreadable, ret, written, failed, drops, crashes,
                   faults >>

EntryAppears(e) ==
    /\ component = "filters" /\ pc = "idle"
    /\ pc' = "listed" /\ cur' = e /\ items' = {}
    /\ UNCHANGED not_filters

\* on_created (watchdog running) and check_for_updates (polling) meet the
\* entry; items becomes the set of modes whose filter passes it on to
\* process_file.
EntryFiltered ==
    /\ component = "filters" /\ pc = "listed"
    /\ items' = Handed(cur)
    /\ pc' = "idle" /\ cur' = None
    /\ UNCHANGED not_filters

\* the frame of the supervisor's steps
not_supervisor == << config, fs_vars, gmail_vars, ralph_vars, clock, needs_action, downstream, missing,
                     unreadable, items, written, failed, drops, crashes, faults >>

\* Orchestrator.start_watcher: an unknown name or a missing script returns
\* False; otherwise subprocess.Popen launches the script and the handle is
\* stored under the name.  `ok = FALSE` is Popen raising.  A watcher process
\* loads its ledger file when it is constructed.
start_watcher(watcher_name, ok) ==
    /\ component = "supervisor" /\ pc = "ready"
    /\ IF watcher_name \notin Watchers \/ ~ok
       THEN /\ ret' = "False"
            /\ UNCHANGED sup_vars
       ELSE /\ launched < MaxStarts
            /\ launched' = launched + 1
            /\ alive' = alive \cup {launched'}
            /\ kind' = Append(kind, watcher_name)
            /\ worker_ledger' = Append(worker_ledger, ledger_files[watcher_name])
            /\ processes' = [processes EXCEPT ![watcher_name] = launched']
            /\ ret' = "True"
            /\ UNCHANGED << ledger_files, materialized, waited >>
    /\ UNCHANGED << not_supervisor, pc, cur >>

\* Orchestrator.stop_watcher up to proc.wait: a name without a handle returns
\* False; otherwise proc.terminate() is sent to the handle's process
stop_watcher(watcher_name) ==
    /\ component = "supervisor" /\ pc = "ready"
    /\ IF watcher_name \notin Watchers \/ processes[watcher_name] = 0
       THEN ret' = "False" /\ UNCHANGED << pc, cur >>
       ELSE /\ pc' = "wait"
            /\ cur' = [name |-> watcher_name, proc |-> processes[watcher_name],
                        rest |-> {}, all |-> FALSE]
            /\ UNCHANGED ret
    /\ waited' = 0
    /\ UNCHANGED << not_supervisor, processes, launched, alive, kind,
                    worker_ledger, ledger_files, materialized >>

\* Orchestrator.stop_all_watchers: list(self.processes.keys()) is taken once.
\* cur.rest holds the names the loop has not stopped yet.
stop_all_watchers ==
    /\ component = "supervisor" /\ pc = "ready"
    /\ pc' = "stopping"
    /\ cur' = [name |-> "-", proc |-> 0,
                rest |-> { name \in Watchers : processes[name] # 0 }, all |-> TRUE]
    /\ UNCHANGED << not_supervisor, sup_vars, ret >>

\* stop_all_watchers: the next round of `for watcher_name in ...`, which calls
\* stop_watcher up to proc.wait; after the last name the method returns None.
\* The model does not follow the order of the keys: any name left comes next.
StopAllNext ==
    /\ component = "supervisor" /\ pc = "stopping"
    /\ IF cur.rest = {}
       THEN pc' = "ready" /\ cur' = None /\ ret' = "None" /\ UNCHANGED waited
       ELSE /\ \E name \in cur.rest :
                  cur' = [name |-> name, proc |-> processes[name],
                          rest |-> cur.rest \ {name}, all |-> TRUE]
            /\ pc' = "wait" /\ waited' = 0
            /\ UNCHANGED ret
    /\ UNCHANGED << not_supervisor, processes, launched, alive, kind,
                    worker_ledger, ledger_files, materialized >>

\* stop_watcher returns True: to its caller, or into stop_all_watchers' loop
StopWatcherReturns ==
    /\ ret' = "True"
    /\ IF cur.all
       THEN pc' = "stopping" /\ cur' = [cur EXCEPT !.name = "-", !.proc = 0]
       ELSE pc' = "ready" /\ cur' = None

\* `except Exception: ... proc.kill(); return True` (lines 320-324): the
\* handle table is as it was
KillLeavesHandle(name) == processes

\* Orchestrator.get_status, 'watchers' (lines 655-658)
get_status ==
    [ name \in Watchers |-> IF processes[name] # 0 THEN "running" ELSE "stopped" ]

\* a variant of the wait that never times out
WaitExpiredNever == FALSE

\* proc.wait(timeout=5) raises TimeoutExpired
WaitExpired == waited >= GracePeriod

\* one second of proc.wait(timeout=5) passes with the process still running
StopWaitTick ==
    /\ component = "supervisor" /\ pc = "wait"
    /\ cur.proc \in alive /\ ~WaitExpired
    /\ waited' = waited + 1
    /\ UNCHANGED << not_supervisor, pc, cur, ret, processes, launched, alive, kind,
                    worker_ledger, ledger_files, materialized >>

\* proc.wait returns because the process has exited: the handle is deleted and
\* stop_watcher returns True (lines 315-317)
StopWaitReturns ==
    /\ component = "supervisor" /\ pc = "wait"
    /\ cur.proc \notin alive
    /\ processes' = [processes EXCEPT ![cur.name] = 0]
    /\ StopWatcherReturns
    /\ waited' = 0
    /\ UNCHANGED << not_supervisor, launched, alive, kind, worker_ledger,
                    ledger_files, materialized >>

\* proc.wait raises TimeoutExpired: the except clause calls proc.kill() and
\* returns True; the handle stays in the table (lines 320-324)
StopWaitTimeout ==
    /\ component = "supervisor" /\ pc = "wait"
    /\ cur.proc \in alive /\ WaitExpired
    /\ alive' = alive \ {cur.proc}
    /\ worker_ledger' = [worker_ledger EXCEPT ![cur.proc] = {}]
    /\ processes' = KillLeavesHandle(cur.name)
    /\ StopWatcherReturns
    /\ waited' = 0
    /\ UNCHANGED << not_supervisor, launched, kind, ledger_files, materialized >>

\* A worker process ends: on the termination request, or on its own (an
\* unhandled error, a kill from outside).  Its memory goes with it.  A worker
\* that ignores the termination request is one for which this step does not
\* happen while stop_watcher waits.
WorkerExits(w) ==
    /\ component = "supervisor"
    /\ w \in alive
    /\ alive' = alive \ {w}
    /\ worker_ledger' = [worker_ledger EXCEPT ![w] = {}]
    /\ UNCHANGED << not_supervisor, pc, cur, ret, processes, launched, kind,
                    ledger_files, materialized, waited >>

\* A worker handles a candidate to the end (process_file, create_action_file):
\* nothing if its own ledger holds the identifier (the filesystem watcher's
\* check, or the filter of check_for_updates); otherwise it writes the record,
\* admits the identifier and rewrites the whole ledger file of its kind from
\* its own in-memory ledger.
WorkerHandles(w, id) ==
    /\ component = "supervisor" /\ ~dry_run
    /\ w \in alive
    /\ id \notin worker_ledger[w]
    /\ materialized' = [materialized EXCEPT ![<< kind[w], id >>] = @ + 1]
    /\ worker_ledger' = [worker_ledger EXCEPT ![w] = @ \cup {id}]
    /\ ledger_files' = [ledger_files EXCEPT ![kind[w]] = worker_ledger'[w]]
    /\ UNCHANGED << not_supervisor, pc, cur, ret, processes, launched, alive, kind,
                    waited >>

\* ------------------------------------------------------------------ spec
\* ------------------------------------------------- reading the stages
\* Component "stages": other actors change the stage directories between the
\* calls of _count_files and get_needs_action_files.
StageEntries ==
    StageItems \cup
    { [prefix |-> "FILE", label |-> << "r", "_" >>, stamp |-> 0, ext |-> "pdf"] }

\* directories that an operator removes and makes again
Removable == {"Needs_Action", "Done"}

not_stages == << config, sup_vars, fs_vars, gmail_vars, ralph_vars, clock, unreadable,
                 items, ret, written, failed, drops, crashes, faults >>

\* An actor outside the orchestrator puts an entry into Needs_Action.
EntryPut(n) ==
    /\ component = "stages" /\ "Needs_Action" \notin missing
    /\ n \notin DOMAIN needs_action
    /\ needs_action' = (n :> Record("x", TRUE)) @@ needs_action
    /\ UNCHANGED << not_stages, downstream, missing, pc, cur >>

\* The external agent or the operator moves an entry from Needs_Action to Done.
EntryMoved(n) ==
    /\ component = "stages" /\ missing \cap {"Needs_Action", "Done"} = {}
    /\ n \in DOMAIN needs_action
    /\ needs_action' = [ k \in DOMAIN needs_action \ {n} |-> needs_action[k] ]
    /\ downstream' = [downstream EXCEPT !["Done"] = @ \cup {n}]
    /\ UNCHANGED << not_stages, missing, pc, cur >>

\* The operator removes a stage directory with what is in it.
DirectoryRemoved(stage) ==
    /\ component = "stages" /\ stage \in Removable \ missing
    /\ missing' = missing \cup {stage}
    /\ IF stage = "Needs_Action"
       THEN needs_action' = << >> /\ UNCHANGED downstream
       ELSE downstream' = [downstream EXCEPT ![stage] = {}] /\ UNCHANGED needs_action
    /\ UNCHANGED << not_stages, pc, cur >>

\* The operator makes the directory again.
DirectoryMade(stage) ==
    /\ component = "stages" /\ stage \in missing
    /\ missing' = missing \ {stage}
    /\ UNCHANGED << not_stages, needs_action, downstream, pc, cur >>

\* A caller counts every stage (as update_dashboard and get_status do) and
\* lists Needs_Action.  cur keeps what the calls returned and (history) what
\* the counts of the read before them were.
StagesRead ==
    /\ component = "stages" /\ pc \in {"idle", "called"}
    /\ pc' = "called"
    /\ LET counts == [ stage \in Stages |-> _count_files(stage) ]
       IN  cur' = [ counts |-> counts,
                    files |-> get_needs_action_files,
                    before |-> IF pc = "called" THEN cur.counts ELSE counts ]
    /\ UNCHANGED << not_stages, needs_action, downstream, missing >>

\* ------------------------------------------------------------- get_priority
\* Texts are sequences of characters.  str.lower() on the letters A-Z.
UpperCase == << "A", "B", "C", "D", "E", "F", "G", "H", "I", "J", "K", "L", "M",
               "N", "O", "P", "Q", "R", "S", "T", "U", "V", "W", "X", "Y", "Z" >>

LowerCase == << "a", "b", "c", "d", "e", "f", "g", "h", "i", "j", "k", "l", "m",
               "n", "o", "p", "q", "r", "s", "t", "u", "v", "w", "x", "y", "z" >>

lower(content) ==
    [ i \in 1..Len(content) |->
        IF \E k \in 1..Len(UpperCase) : UpperCase[k] = content[i]
        THEN LowerCase[CHOOSE k \in 1..Len(UpperCase) : UpperCase[k] = content[i]]
        ELSE content[i] ]

\* `kw in content_lower`: kw is a substring of the text
Contains(text, kw) ==
    \E i \in 0..(Len(text) - Len(kw)) : SubSeq(text, i + 1, i + Len(kw)) = kw

critical_keywords ==
    { << "u", "r", "g", "e", "n", "t" >>,
      << "a", "s", "a", "p" >>,
      << "e", "m", "e", "r", "g", "e", "n", "c", "y" >>,
      << "h", "e", "l", "p" >>,
      << "c", "r", "i", "t", "i", "c", "a", "l" >> }

high_keywords ==
    { << "i", "n", "v", "o", "i", "c", "e" >>,
      << "p", "a", "y", "m", "e", "n", "t" >>,
      << "d", "e", "a", "d", "l", "i", "n", "e" >>,
      << "d", "u", "e" >>,
      << "i", "m", "p", "o", "r", "t", "a", "n", "t" >> }

low_keywords ==
    { << "n", "e", "w", "s", "l", "e", "t", "t", "e", "r" >>,
      << "u", "n", "s", "u", "b", "s", "c", "r", "i", "b", "e" >>,
      << "p", "r", "o", "m", "o", "t", "i", "o", "n" >>,
      << "o", "f", "f", "e", "r" >> }

\* a variant that looks for the high keywords before the critical ones
get_priorityHighFirst(content) ==
    LET content_lower == lower(content)
    IN  IF \E kw \in high_keywords : Contains(content_lower, kw) THEN "high"
        ELSE IF \E kw \in critical_keywords : Contains(content_lower, kw) THEN "critical"
        ELSE IF \E kw \in low_keywords : Contains(content_lower, kw) THEN "low"
        ELSE "normal"

\* BaseWatcher.get_priority
get_priority(content) ==
    LET content_lower == lower(content)
    IN  IF \E kw \in critical_keywords : Contains(content_lower, kw) THEN "critical"
        ELSE IF \E kw \in high_keywords : Contains(content_lower, kw) THEN "high"
        ELSE IF \E kw \in low_keywords : Contains(content_lower, kw) THEN "low"
        ELSE "normal"

\* Pieces of the texts handed to get_priority: f"{filepath.name} {file_type}"
\* and f"{subject} {snippet}".  Keywords in upper and mixed case, one inside a
\* longer word, one ("invoice") that only the concatenation of two pieces
\* spells.
Fragments ==
    { << "U", "R", "G", "E", "N", "T" >>,
      << "I", "n" >>,
      << "v", "o", "i", "c", "e", " " >>,
      << "o", "v", "e", "r", "D", "u", "e" >>,
      << "O", "f", "f", "e", "r" >> }

RECURSIVE TextsOf(_)
TextsOf(n) ==
    IF n = 0 THEN { << >> }
    ELSE LET shorter == TextsOf(n - 1)
         IN  shorter \cup { t \o f : t \in shorter, f \in Fragments }

Texts == TextsOf(MaxPieces)

\* the frame of a call of get_priority
not_priority == << config, sup_vars, fs_vars, gmail_vars, ralph_vars, clock, needs_action,
                   downstream, missing, unreadable, items, written, failed, drops, crashes,
                   faults >>

\* A caller evaluates get_priority(content): component "priority" keeps the
\* text of the last call in cur and the value it returned in ret.
GetPriorityCalled(content) ==
    /\ component = "priority" /\ pc \in {"idle", "called"}
    /\ pc' = "called" /\ cur' = [content |-> content]
    /\ ret' = get_priority(content)
    /\ UNCHANGED not_priority

\* What the filesystem watcher can leave in Needs_Action besides records: the
\* copy of a dropped file under the file's own name (filesystem_watcher.py:394
\* and 407), here of a dropped .md file whose record has been moved on.
Leftovers ==
    { DestPath(p) :> Payload("x") : p \in { f \in FilePaths : f.ext = "md" } }

\* Needs_Action as the orchestrator can find it when ralph_loop starts
StartingStages ==
    { [ n \in S |-> Record("x", TRUE) ] : S \in SUBSET StageItems } \cup Leftovers

Started ==
    /\ component \in {"filesystem", "gmail", "orchestrator", "supervisor", "filters",
                       "priority", "stages"}
    /\ dry_run \in BOOLEAN
    /\ use_watchdog \in (IF component = "filesystem" THEN BOOLEAN ELSE {FALSE})
    /\ max_iterations \in (IF component = "orchestrator" THEN 0..MaxIter ELSE {0})
    /\ check_file_movement \in (IF component = "orchestrator" THEN BOOLEAN ELSE {TRUE})
    /\ agent_present \in (IF component = "orchestrator" THEN BOOLEAN ELSE {TRUE})
    /\ credentials \in (IF component = "gmail" THEN BOOLEAN ELSE {TRUE})
    /\ needs_action \in (IF component = "orchestrator" THEN StartingStages ELSE {<< >>})
    /\ downstream = [ stage \in DownstreamStages |-> {} ]
    /\ missing = {}
    /\ clock = 0
    /\ drop_folder = << >>
    /\ mailbox = {}
    /\ idle_polls = 0
    /\ unreadable = {}
    /\ events = << >>
    /\ processed_files = {}
    /\ hashes_file = {}
    /\ processed_ids = {}
    /\ ids_file = {}
    /\ pc = CASE component = "orchestrator" -> "while"
              [] component = "supervisor" -> "ready"
              [] OTHER -> "idle"
    /\ processes = [ name \in Watchers |-> 0 ]
    /\ launched = 0
    /\ alive = {}
    /\ kind = << >>
    /\ worker_ledger = << >>
    /\ ledger_files = [ name \in Watchers |-> {} ]
    /\ materialized = [ c \in Watchers \X WorkItems |-> 0 ]
    /\ waited = 0
    /\ items = {}
    /\ cur = None
    /\ ret = "-"
    /\ written = {}
    /\ failed = {}
    /\ drops = 0
    /\ crashes = 0
    /\ faults = 0
    /\ iteration = 0
    /\ needs_action_count = -1
    /\ completed = FALSE
    /\ last_output = ""
    /\ last_length = 0
    /\ state_file = NoStateFile
    /\ invocations = 0
    /\ satisfied = (_count_files("Needs_Action") = 0)

\* The state after construction, with a mailbox that holds no message yet.
Init == Started /\ backlog = 0

Next ==
    \/ \E p \in FilePaths, h \in Hashes, readable \in BOOLEAN : Drop(p, h, readable)
    \/ \E m \in MessageIds, intact \in BOOLEAN : Arrive(m, intact)
    \/ Tick
    \/ Crash
    \/ WatcherInterrupt
    \/ RalphInterrupt
    \/ \E readable \in BOOLEAN : Restart(readable)
    \/ \E item \in Candidates : RunLoopItem(item)
    \/ \E listable \in BOOLEAN : FilesystemWatcher_check_for_updates(listable)
    \/ on_created
    \/ \E ok \in BOOLEAN : ProcessFileCopy(ok)
    \/ \E ok \in BOOLEAN : ProcessFileOpen(ok)
    \/ \E ok \in BOOLEAN : ProcessFileWrite(ok)
    \/ ProcessFileAdmit
    \/ \E ok \in BOOLEAN : SaveProcessedFilesOpen(ok)
    \/ \E lines \in SUBSET Hashes : SaveProcessedFilesWrite(lines)
    \/ \E reachable \in BOOLEAN : GmailWatcher_check_for_updates(reachable)
    \/ \E m \in MessageIds : CallCreateActionFile(m)
    \/ \E ok \in BOOLEAN : CreateActionFileOpen(ok)
    \/ \E ok \in BOOLEAN : CreateActionFileWrite(ok)
    \/ CreateActionFileAdmit
    \/ \E ok \in BOOLEAN : SaveProcessedIdsOpen(ok)
    \/ \E lines \in SUBSET MessageIds : SaveProcessedIdsWrite(lines)
    \/ \E n \in StageItems : ItemAdded(n)
    \/ \E n \in StageItems : ItemMoved(n, "Done")
    \/ RalphCycle
    \/ RalphInvoke
    \/ \E outcome \in {"output", "promise", "timeout", "error", "absent"} :
          RalphReturn(outcome)
    \/ RalphSave
    \/ RalphFinal
    \/ component = "priority" /\ \E content \in Texts : GetPriorityCalled(content)
    \/ \E n \in StageEntries : EntryPut(n)
    \/ \E n \in StageEntries : EntryMoved(n)
    \/ \E stage \in Removable : DirectoryRemoved(stage)
    \/ \E stage \in Removable : DirectoryMade(stage)
    \/ StagesRead
    \/ \E name \in WatcherNames, ok \in BOOLEAN : start_watcher(name, ok)
    \/ \E name \in WatcherNames : stop_watcher(name)
    \/ stop_all_watchers
    \/ StopAllNext
    \/ StopWaitTick
    \/ StopWaitReturns
    \/ StopWaitTimeout
    \/ \E w \in 1..MaxStarts : WorkerExits(w)
    \/ \E w \in 1..MaxStarts, id \in WorkItems : WorkerHandles(w, id)
    \/ \E e \in Entries : EntryAppears(e)
    \/ EntryFiltered

Spec == Init /\ [][Next]_vars

\* ------------------------------------------- GmailWatcher, a full mailbox
\* The Gmail watcher alone, not in dry run, with credentials, Gmail reachable
\* and every write succeeding; the mailbox may hold a page of unread messages
\* that earlier cycles materialized.
MailInit ==
    /\ Started
    /\ component = "gmail" /\ ~dry_run /\ credentials
    /\ backlog \in {0, MaxResults}

\* BaseWatcher.run (lines 216-240): poll, handle each item, sleep, again
MailCycle ==
    \/ GmailWatcher_check_for_updates(TRUE)
    \/ \E item \in MessageIds : RunLoopItem(item)
    \/ CreateActionFileOpen(TRUE)
    \/ CreateActionFileWrite(TRUE)
    \/ CreateActionFileAdmit
    \/ SaveProcessedIdsOpen(TRUE)
    \/ SaveProcessedIdsWrite(processed_ids)

MailNext ==
    \/ \E m \in MessageIds : Arrive(m, TRUE)
    \/ Tick
    \/ MailCycle

\* the run loop never stops taking its next step
MailSpec == MailInit /\ [][MailNext]_vars /\ WF_vars(MailCycle)


\* ---------------------------------------------------------------- claims
\* whole action records in Needs_Action that carry identifier id
WholeRecordsOf(id) == { n \in RecordsOf(id) : needs_action[n].whole }

\* the steps of the environment that put items into Needs_Action or take them
\* out, or change a later stage
StageStep ==
    \/ \E n \in StageItems : ItemAdded(n) \/ \E stage \in DownstreamStages : ItemMoved(n, stage)
    \/ \E n \in StageEntries : EntryPut(n) \/ EntryMoved(n)
    \/ \E stage \in Removable : DirectoryRemoved(stage)

\* C1: in non-dry-run mode, after any sequence of process_file calls with no
\* crash and no write failure, every content hash whose record was written has
\* exactly one action record in Needs_Action and is in the ledger, in memory
\* and in the ledger file.  (Stated as the claim states it; the model refutes
\* it.)
C1_OneRecordPerHash ==
    (component = "filesystem" /\ ~dry_run /\ crashes = 0 /\ faults = 0 /\ pc = "idle")
    => \A h \in written :
          /\ Cardinality(RecordsOf(h)) = 1
          /\ h \in processed_files
          /\ h \in hashes_file

\* C1, the part that holds: a process_file call for a file whose hash is
\* already in processed_files writes nothing and returns None.
C1_LedgerHitWritesNothing ==
    [][ ( /\ component = "filesystem"
          /\ pc = "idle" /\ pc' = "idle"
          /\ \/ Len(events') < Len(events)
             \/ Cardinality(items') < Cardinality(items)
          /\ LET p == IF use_watchdog THEN Head(events)
                      ELSE CHOOSE q \in items : q \notin items'
             IN  /\ ~dry_run
                 /\ p \in DOMAIN drop_folder /\ p \notin unreadable
                 /\ drop_folder[p] \in processed_files )
        => (ret' = None /\ UNCHANGED << needs_action, processed_files, hashes_file >>)
      ]_vars

\* C1, where the model reaches it: a hash whose record was written and then
\* lost to a later record of the same name.
C1_RecordLost ==
    /\ component = "filesystem" /\ ~dry_run /\ crashes = 0 /\ faults = 0 /\ pc = "idle"
    /\ \E h \in written : RecordsOf(h) = {} /\ h \in hashes_file

\* C2: GmailWatcher.create_action_file, called in non-dry-run mode for a message
\* whose id is already in processed_ids, writes no record.  (Stated as the claim
\* states it; the model refutes it.)
C2_LedgerCheckedBeforeWrite ==
    (component = "gmail" /\ pc \in {"open", "write"})
    => cur.id \notin cur.before.memory

\* C2, where the model reaches it: a record being rewritten for a message whose
\* id the ledger held when the call began.
C2_ProcessedIdRewritten ==
    /\ component = "gmail" /\ pc = "write"
    /\ cur.id \in cur.before.memory

\* C3: in every reachable state of either adapter, crash points included, an
\* identifier is in the ledger (in memory or in the ledger file) only if its
\* record was written whole to Needs_Action before.
C3_AdmitAfterWrite ==
    (processed_files \cup hashes_file \cup processed_ids \cup ids_file) \subseteq written

\* C3, its case: the process was killed and the ledger file holds an identifier.
C3_CrashedWithLedger ==
    /\ pc = "crashed"
    /\ (hashes_file \cup ids_file) # {}

\* what the next poll can list: the drop folder, or one page of the mailbox
Listed ==
    IF component = "filesystem" THEN DOMAIN drop_folder
    ELSE IF Cardinality(mailbox) <= MaxResults THEN mailbox ELSE {}

\* the identifier a listed candidate has now
IdOf(c) == IF component = "filesystem" THEN drop_folder[c] ELSE c

\* a step that is a call of check_for_updates
PollStep ==
    \/ \E listable \in BOOLEAN : FilesystemWatcher_check_for_updates(listable)
    \/ \E reachable \in BOOLEAN : GmailWatcher_check_for_updates(reachable)

\* a poll that reaches its source: the drop folder is listed; the adapter has
\* its credentials and the Gmail API answers
SourceReached ==
    IF component = "filesystem"
    THEN FilesystemWatcher_check_for_updates(TRUE)
    ELSE GmailWatcher_check_for_updates(TRUE) /\ credentials

\* a poll whose own reads all succeed: no unreadable file in the drop folder;
\* the Gmail API answering and no new message with corrupt metadata
PollSucceeds ==
    IF component = "filesystem"
    THEN FilesystemWatcher_check_for_updates(TRUE)
         /\ unreadable \cap DOMAIN drop_folder = {}
    ELSE GmailWatcher_check_for_updates(TRUE) /\ credentials
         /\ (mailbox \ processed_ids) \cap unreadable = {}

C5_NoSurvivingDuplicate ==
    (component = "filesystem" /\ faults = 0)
    => \A h \in hashes_file : Cardinality(WholeRecordsOf(h)) <= 1

\* C5, where the model reaches it: after one kill the ledger has caught up and
\* two records of the same hash remain.
C5_DuplicateSurvives ==
    /\ component = "filesystem" /\ faults = 0 /\ crashes = 1 /\ pc = "idle"
    /\ \E h \in hashes_file \cap processed_files : Cardinality(WholeRecordsOf(h)) = 2

\* C6: whatever entry a reader finds in Needs_Action is complete: a record is
\* either absent or whole.  (Stated as the claim states it; the model refutes
\* it.)
C6_RecordsAreWhole ==
    \A n \in DOMAIN needs_action : needs_action[n].whole

\* C6, where the model reaches it: the record exists under its final name while
\* write_text has not written its content.
C6_PartialRecordVisible ==
    /\ pc = "write"
    /\ ~needs_action[cur.action].whole

\* C7: within one process run no materialization overwrites the record of
\* another candidate: a record name that exists keeps its identifier.  (Stated
\* as the claim states it; the model refutes it.)
C7_NoOverwrite ==
    [][ (component \in Watchers /\ crashes = 0)
        => \A n \in DOMAIN needs_action \cap DOMAIN needs_action' :
              needs_action[n].kind = "record"
              => needs_action'[n].id = needs_action[n].id
      ]_vars

\* C7, where the model reaches it: a candidate in hand whose record name is that
\* of another candidate's whole record.
C7_NameCollision ==
    /\ component \in Watchers /\ crashes = 0
    /\ pc = "open"
    /\ cur.action \in DOMAIN needs_action
    /\ needs_action[cur.action].id # cur.id

\* C8: with dry_run true no step of a watcher or of ralph_loop changes the
\* ledger (in memory or on disk), Needs_Action or the loop's state file, and
\* ralph_loop never invokes the agent; Needs_Action changes only by the hand of
\* the other actors.
C8_DryRunFrame ==
    [][ dry_run
        => /\ UNCHANGED << processed_files, hashes_file, processed_ids, ids_file >>
           /\ UNCHANGED << state_file, invocations >>
           /\ invocations = 0 /\ state_file = NoStateFile
           /\ needs_action' # needs_action => StageStep
      ]_vars

\* C8, its case: a dry run in which process_file has handled a dropped file to
\* its end.
C8_DryRunHandled ==
    /\ dry_run /\ component = "filesystem"
    /\ DOMAIN drop_folder # {} /\ ret = "path"

\* C9: a non-dry-run ralph_loop whose completion predicate was never satisfied
\* ends after exactly max_iterations agent invocations with completed false,
\* and its final state record says so.
C9_ExhaustedAfterN ==
    (component = "orchestrator" /\ ~dry_run /\ pc = "done" /\ ~satisfied)
    => /\ invocations = max_iterations
       /\ iteration = max_iterations
       /\ ~completed
       /\ state_file = [type |-> "final", iteration |-> max_iterations,
                        completed |-> FALSE]

\* C9, its case: the loop has ended Exhausted with the whole budget spent.
C9_BudgetSpent ==
    /\ component = "orchestrator" /\ ~dry_run /\ pc = "done" /\ ~satisfied
    /\ max_iterations = MaxIter /\ invocations = MaxIter

\* C10: with check_file_movement on, the agent is never invoked in a cycle whose
\* count of Needs_Action was zero, and a zero count at the first cycle ends the
\* loop Completed with no invocation (or Ctrl+C ends it there).
C10_PredicateBeforeInvocation ==
    (component = "orchestrator" /\ check_file_movement)
    => /\ pc \in {"invoke", "running"} => needs_action_count > 0
       /\ (iteration = 1 /\ needs_action_count = 0)
          => (invocations = 0 /\ completed /\ pc \in {"final", "done", "interrupted"})
       /\ (iteration >= 1 /\ needs_action_count = 0)
          => pc \in {"final", "done", "interrupted"}

\* C10, its case: Needs_Action was empty at the first cycle and the loop is over.
C10_EmptyAtFirstCycle ==
    /\ component = "orchestrator" /\ check_file_movement
    /\ iteration = 1 /\ needs_action_count = 0 /\ pc = "done"

\* C11: whenever ralph_loop stops with check_file_movement on and the count of
\* Needs_Action zero at that moment, the outcome is Completed: this includes a
\* stop by the loop test after the last permitted invocation, and
\* max_iterations = 0.  (Stated as the claim states it; the model refutes it.)
C11_CompletedWhenEmptyAtStop ==
    [][ ( /\ component = "orchestrator" /\ check_file_movement
          /\ pc # "final" /\ pc' = "final"
          /\ _count_files("Needs_Action") = 0 )
        => completed'
      ]_vars

\* C11, where the model reaches it: the loop is over, Needs_Action was empty
\* when it stopped and has been since, and the outcome is not Completed.
C11_ExhaustedThoughEmpty ==
    /\ component = "orchestrator" /\ check_file_movement
    /\ pc = "done" /\ ~completed
    /\ drops = 0 /\ _count_files("Needs_Action") = 0

\* last outputs that ralph_loop writes itself when an invocation fails
FailureMarkers == {"Timeout - retrying", "Error"}

\* C12: when an invocation times out or raises, ralph_loop records the timeout
\* or error marker as the last output, writes the iteration snapshot and goes
\* back to the loop test, which starts iteration k+1 while k < max_iterations:
\* the loop is never over unless it completed or spent its budget.  The steps
\* are the loop's own: Ctrl+C is not among them.
C12_FailedInvocationContinues ==
    [][ (component = "orchestrator" /\ ~dry_run /\ ~RalphInterrupt)
        => /\ (pc = "running" /\ pc' # "running" /\ last_output' \in FailureMarkers)
              => (pc' = "save" /\ UNCHANGED << completed, iteration >>)
           /\ (pc = "save" /\ pc' # "save" /\ last_output \in FailureMarkers)
              => /\ pc' = "while"
                 /\ state_file' = [type |-> "iteration", iteration |-> iteration,
                                   completed |-> completed]
           /\ (pc = "while" /\ pc' # "while" /\ last_output \in FailureMarkers
               /\ iteration < max_iterations)
              => (iteration' = iteration + 1 /\ (pc' = "final" => completed'))
           /\ pc' \in {"final", "done"} => (completed' \/ iteration' = max_iterations)
      ]_vars

\* C12, its case: an invocation of iteration 1 failed and iteration 2 has begun
\* with the snapshot of iteration 1 on disk.
C12_NextIterationAfterFailure ==
    /\ component = "orchestrator" /\ ~dry_run
    /\ last_output \in FailureMarkers
    /\ iteration = 2 /\ pc = "invoke"
    /\ state_file = [type |-> "iteration", iteration |-> 1, completed |-> FALSE]

\* C13: if the agent executable is absent at the first invocation, ralph_loop
\* ends at once: no second invocation is attempted.  (Stated as the claim
\* states it; the model refutes it.)
C13_AbsentAgentEndsLoop ==
    (component = "orchestrator" /\ ~dry_run /\ ~agent_present)
    => /\ invocations <= 1
       /\ (invocations = 1 /\ pc # "running") => pc \in {"final", "done"}

\* C13, where the model reaches it: with no agent executable the loop has spent
\* its whole budget on invocations that could not start.
C13_BudgetSpentOnAbsentAgent ==
    /\ component = "orchestrator" /\ ~dry_run /\ ~agent_present
    /\ pc = "done" /\ invocations = MaxIter

\* C14: in non-dry-run mode an output that holds the completion promise ends
\* the loop Completed with no further invocation, and with check_file_movement
\* off nothing else ends it Completed.  (Ctrl+C can end it from there.)
C14_PromiseCompletes ==
    [][ component = "orchestrator"
        => /\ (~dry_run /\ last_output' = "output with promise")
              => /\ completed' /\ pc' \in {"final", "done", "interrupted"}
                 /\ last_output = "output with promise" => UNCHANGED invocations
           /\ (~check_file_movement /\ completed')
              => (~dry_run /\ last_output' = "output with promise")
      ]_vars

\* C14, its case: with check_file_movement off and Needs_Action empty from the
\* start, the agent was invoked and its promise ended the loop Completed.
C14_CompletedByPromiseOnly ==
    /\ component = "orchestrator" /\ ~dry_run /\ ~check_file_movement
    /\ drops = 0 /\ _count_files("Needs_Action") = 0
    /\ pc = "done" /\ completed /\ invocations = 1

\* live workers that the supervisor launched for a name
LiveWorkers(name) == { w \in alive : kind[w] = name }

\* C15: start_watcher for a name that has a handle in the table is rejected and
\* launches nothing, so that at most one launched worker is alive per name and
\* every live worker's handle is in the table.  (Stated as the claim states
\* it; the model refutes it.)
C15_OneWorkerPerName ==
    [][ component = "supervisor"
        => /\ \A name \in Watchers :
                (processes[name] # 0 /\ launched' # launched /\ kind'[launched'] = name)
                => FALSE
           /\ \A name \in Watchers : Cardinality(LiveWorkers(name)') <= 1
           /\ \A w \in alive' : processes'[kind'[w]] = w
      ]_vars

\* C15, where the model reaches it: two live workers of one name, the first of
\* them without a handle in the table.
C15_SecondWorkerLaunched ==
    /\ component = "supervisor"
    /\ \E name \in Watchers :
          /\ Cardinality(LiveWorkers(name)) = 2
          /\ \E w \in LiveWorkers(name) : processes[name] # w

\* a step of stop_watcher's wait for the process
StopWaitStep == StopWaitTick \/ StopWaitReturns \/ StopWaitTimeout

\* C16: stop_watcher on a tracked worker always returns.  After the
\* termination request it waits no longer than the grace period; in every
\* state of the wait a step of stop_watcher can be taken, whatever the worker
\* does; it kills the process only when the grace period has run out with the
\* process still alive; and it returns True with the process dead.
C16_StopAlwaysReturns ==
    [][ (component = "supervisor" /\ pc = "wait")
        => /\ waited <= GracePeriod /\ waited' <= GracePeriod
           /\ ENABLED StopWaitStep
           /\ pc' = "wait" => (waited' >= waited /\ (alive' = alive \/ UNCHANGED waited))
           /\ pc' # "wait"
              => /\ pc' \in {"ready", "stopping"} /\ ret' = "True"
                 /\ cur.proc \notin alive'
                 /\ cur.proc \in alive => waited = GracePeriod
      ]_vars

\* C16, its case: the worker did not exit on the termination request and the
\* whole grace period has run out in stop_watcher's wait, process still alive.
C16_GracePeriodRanOut ==
    /\ component = "supervisor" /\ pc = "wait"
    /\ waited = GracePeriod /\ cur.proc \in alive

\* the listed candidates that can be read and are not in the ledger
ValidCandidates ==
    { c \in Listed : c \notin unreadable /\ IdOf(c) \notin Ledger.memory }

\* C17: a poll that reaches its source returns every valid candidate it lists,
\* also when a malformed candidate (an unreadable file, a message with corrupt
\* metadata) is listed with them: the bad candidate alone is skipped.  (Stated
\* as the claim states it; the model refutes it.)
C17_BadCandidateSkipped ==
    [][ (PollStep /\ SourceReached)
        => items' = ValidCandidates
      ]_vars

\* C17, where the model reaches it: a poll has just returned nothing and
\* cleared the cycle, with a valid candidate and a malformed one both listed.
C17_CycleEmptied ==
    /\ component \in Watchers /\ ~use_watchdog
    /\ pc = "idle" /\ items = {} /\ failed = {}
    /\ ValidCandidates # {}
    /\ Listed \cap unreadable # {}
    /\ DOMAIN needs_action = {}

\* C18: push mode and poll mode hand the same entries to process_file: every
\* entry that appears is passed on by both filters or by neither.  (Stated as
\* the claim states it; the model refutes it.)
C18_ModesHandTheSame ==
    [][ (component = "filters" /\ EntryFiltered)
        => (items' = Modes \/ items' = {})
      ]_vars

\* C18, where the model reaches it: an entry was handed to process_file in
\* poll mode and skipped in push mode.
C18_PollOnly ==
    /\ component = "filters" /\ pc = "idle"
    /\ items = {"poll"}

\* C19: under any sequence of supervisor starts and stops a kind's ledger file
\* has at most one live writer, no step erases an identifier from a kind's
\* ledger file, and no candidate is materialized twice by workers of one kind.
\* (Stated as the claim states it; the model refutes it.)
C19_SingleWriterPerLedger ==
    [][ component = "supervisor"
        => /\ \A name \in Watchers : Cardinality(LiveWorkers(name)') <= 1
           /\ \A name \in Watchers : ledger_files[name] \subseteq ledger_files'[name]
           /\ \A c \in Watchers \X WorkItems : materialized'[c] <= 1
      ]_vars

\* C19, where the model reaches it: an identifier that a worker materialized
\* and persisted is gone from its kind's ledger file after another worker's
\* rewrite, and has been materialized a second time.
C19_ErasedAndRepeated ==
    /\ component = "supervisor"
    /\ \E name \in Watchers, id \in WorkItems :
          /\ materialized[<< name, id >>] = 2
          /\ \E other \in WorkItems : 
                /\ materialized[<< name, other >>] >= 1
                /\ other \notin ledger_files[name]

\* C20: while the process lives the in-memory ledger only grows, and when a
\* ledger rewrite ends, by returning, by a write failure or by the process
\* being killed in the middle of it, the ledger file (which the next run
\* loads) still holds every identifier it held when the call began.  (Stated
\* as the claim states it; the model refutes it.)
C20_PersistedIdentifiersSurvive ==
    [][ LET before == Ledger
            after == Ledger'
        IN  component \in Watchers
            => /\ (pc \notin Down /\ pc' \notin Down)
                  => before.memory \subseteq after.memory
               /\ (pc \in {"save", "saving"} /\ pc' \in {"idle"} \cup Down)
                  => cur.before.file \subseteq after.file
      ]_vars

\* C20, where the model reaches it: with no write failure, two identifiers had
\* their records written, the first was persisted, and the process was killed
\* while the file was being rewritten for the second: the file is empty.
C20_LedgerFileEmptied ==
    /\ component \in Watchers /\ pc = "crashed"
    /\ crashes = 1 /\ faults = 0
    /\ Cardinality(written) = 2
    /\ Ledger.file = {}

C22_NoPollingWithoutCredentials ==
    [][ (component = "gmail" /\ ~credentials)
        => ~ (\E reachable \in BOOLEAN : GmailWatcher_check_for_updates(reachable))
      ]_vars

\* C22, where the model reaches it: the adapter has no credentials, its
\* process is in the polling loop, a message is waiting, and nothing was or
\* will be materialized.
C22_PollingWithoutCredentials ==
    /\ component = "gmail" /\ ~credentials
    /\ pc = "idle" /\ mailbox # {}
    /\ items = {} /\ DOMAIN needs_action = {}

\* C23: a KeyboardInterrupt lets the current cycle finish and in-flight state
\* be persisted before the process exits: ralph_loop ends, in non-dry-run mode,
\* only with its final state record written, and a watcher stops only between
\* cycles, with no handling call in progress and no item of the cycle left
\* unhandled.  (Stated as the claim states it; the model refutes it.)
C23_InterruptFinishesCycle ==
    [][ LET after == state_file'
        IN  /\ (component = "orchestrator" /\ ~dry_run /\ pc' \in {"done", "interrupted"})
               => after.type = "final"
            /\ (component \in Watchers /\ pc' = "stopped")
               => (pc = "idle" /\ items = {})
      ]_vars

\* C23, where the model reaches it: ralph_loop was interrupted after a cycle
\* saved its snapshot, and the state file still holds that iteration's record,
\* not a final one.
C23_InterruptedWithoutFinalRecord ==
    /\ component = "orchestrator" /\ ~dry_run
    /\ pc = "interrupted"
    /\ state_file.type = "iteration"

\* the Ralph state records in Plans: ralph_loop writes to the one path
\* RALPH_STATE_<started>.md it computes before the loop
PlansRecords == IF state_file = NoStateFile THEN {} ELSE {state_file}

\* C24: in non-dry-run mode every snapshot ralph_loop persists stays in
\* storage: no write replaces a record written earlier, so that k saved
\* cycles and the final write leave k + 1 records.  (Stated as the claim
\* states it; the model refutes it.)
C24_OneRecordPerCycle ==
    [][ (component = "orchestrator" /\ ~dry_run)
        => PlansRecords \subseteq PlansRecords'
      ]_vars

\* C24, where the model reaches it: two cycles saved their snapshot, the loop
\* ended on its budget and wrote the final record, and storage holds one
\* record, the final one.
C24_OnlyFinalRecordLeft ==
    /\ component = "orchestrator" /\ ~dry_run
    /\ pc = "done" /\ ~completed /\ iteration = 2
    /\ PlansRecords = { [type |-> "final", iteration |-> 2, completed |-> FALSE] }

\* the payload copies in Needs_Action: entries under a dropped file's own name
PayloadCopies ==
    { n \in DOMAIN needs_action : needs_action[n].kind = "payload" }

C26_DownstreamStagesUntouched ==
    [][ /\ downstream' # downstream => StageStep
        /\ component \in Watchers
           => /\ downstream' = downstream
              /\ written' # written => DOMAIN needs_action' # {}
      ]_vars

\* C26, its case: a watcher has materialized an item (record written whole)
\* and the four later stages are as _ensure_directories made them, empty.
C26_MaterializedIntoNeedsAction ==
    /\ component \in Watchers /\ written # {}
    /\ \E n \in DOMAIN needs_action : needs_action[n].kind = "record"
    /\ \A stage \in DownstreamStages : downstream[stage] = {}

\* a step in which the rewrite of the ledger file fails: the open raises, or a
\* write raises with part of the lines written
SaveFails == pc \in {"save", "saving"} /\ faults' = faults + 1

C28_LoadNeverFails ==
    [][ /\ \A readable \in BOOLEAN :
             Restart(readable)
               => LET before == Ledger
                      after == Ledger'
                  IN  /\ pc' = "idle"
                      /\ after.file = before.file
                      /\ (~readable \/ before.file = {}) => after.memory = {}
                      /\ readable => after.memory = before.file
        /\ (component \in Watchers /\ pc \in Down)
              => \A readable \in BOOLEAN : ENABLED Restart(readable)
      ]_vars

\* C28, its case: an adapter that was started again over a ledger file that
\* has lines and could not be read runs with an empty ledger.
C28_StartedWithEmptyLedger ==
    /\ component \in Watchers
    /\ pc = "idle" /\ crashes = 1
    /\ Ledger.memory = {} /\ Ledger.file # {}

\* the two letters are the same up to case
SameLetter(a, b) ==
    \/ a = b
    \/ \E k \in 1..Len(UpperCase) : {a, b} = {UpperCase[k], LowerCase[k]}

\* the text contains one of the keywords, case-insensitively
Mentions(text, keywords) ==
    \E kw \in keywords :
       \E i \in 0..(Len(text) - Len(kw)) :
          \A j \in 1..Len(kw) : SameLetter(text[i + j], kw[j])

Tier(text) ==
    IF Mentions(text, critical_keywords) THEN "critical"
    ELSE IF Mentions(text, high_keywords) THEN "high"
    ELSE IF Mentions(text, low_keywords) THEN "low"
    ELSE "normal"

\* C29: get_priority(text) depends only on the text: every call returns
\* critical if the text contains a critical keyword in any case; otherwise
\* high if it contains a high keyword; otherwise low if it contains a low
\* keyword; otherwise normal.  It changes nothing, and a call with the text of
\* the call before it returns what that call returned, whatever the
\* configuration.
C29_PriorityByPrecedence ==
    [][ component = "priority"
        => \A text \in Texts :
              GetPriorityCalled(text)
                => /\ ret' = Tier(text)
                   /\ (pc = "called" /\ cur.content = text) => ret' = ret
                   /\ UNCHANGED not_priority
      ]_vars

\* C29, its case: get_priority returned high for a text that contains a high
\* and a low keyword, one of them not in lower case.
C29_HighAndLowIsHigh ==
    /\ component = "priority" /\ pc = "called"
    /\ Mentions(cur.content, high_keywords) /\ Mentions(cur.content, low_keywords)
    /\ ~Mentions(cur.content, critical_keywords)
    /\ lower(cur.content) # cur.content
    /\ ret = "high"

\* the *.md entries that a stage directory holds now
MarkdownEntries(stage) ==
    IF stage \in missing THEN {}
    ELSE { n \in Listing(stage) : n.ext = "md" }

\* C30: _count_files(stage) and get_needs_action_files always return, with 0
\* and an empty list for a stage directory that is missing, and otherwise
\* with the number and the list of the *.md entries that the directory holds
\* when they are called: whatever other actors added, moved or removed since
\* the call before, and whatever that call returned.  The count that
\* ralph_loop takes in a cycle is the count of that moment too.
C30_ReadsReflectStorage ==
    [][ /\ StagesRead
           => LET read == cur'
              IN  /\ \A stage \in Stages :
                       read.counts[stage] = Cardinality(MarkdownEntries(stage))
                  /\ Len(read.files) = Cardinality(MarkdownEntries("Needs_Action"))
                  /\ { read.files[i] : i \in 1..Len(read.files) }
                        = MarkdownEntries("Needs_Action")
        /\ component = "stages" => ENABLED StagesRead
        /\ (RalphCycle /\ LoopGuard)
           => needs_action_count' = Cardinality(MarkdownEntries("Needs_Action"))
      ]_vars

\* C30, its case: a read that followed another one returned other counts than
\* it, with 0 for a directory that is missing, and a count and a list that
\* leave out an entry of Needs_Action that is not a *.md entry.
C30_SecondReadDiffers ==
    /\ component = "stages" /\ pc = "called"
    /\ cur.before["Needs_Action"] # cur.counts["Needs_Action"]
    /\ "Done" \in missing /\ cur.counts["Done"] = 0 /\ cur.before["Done"] > 0
    /\ Len(cur.files) = cur.counts["Needs_Action"]
    /\ Len(cur.files) < Cardinality(DOMAIN needs_action)

\* C31: in every state of ralph_loop the iteration counter is between 0 and
\* max_iterations, and the agent was invoked at most once per iteration begun,
\* hence at most max_iterations times.
C31_IterationsAndInvocationsCapped ==
    component = "orchestrator"
    => /\ 0 <= iteration /\ iteration <= max_iterations
       /\ invocations <= iteration
       /\ invocations <= max_iterations

\* C31, its case: a loop that spent its whole budget, with one invocation in
\* every iteration.
C31_BudgetSpentOnInvocations ==
    /\ component = "orchestrator" /\ ~dry_run
    /\ max_iterations = MaxIter
    /\ iteration = max_iterations /\ invocations = max_iterations
    /\ pc = "done"

\* C32: when stop_watcher(name) returns True, on the graceful path or on the
\* forced-kill path, name is no longer in the handle table and get_status
\* reports it as stopped; when stop_all_watchers returns, the handle table is
\* empty.
C32_StoppedLeavesNoHandle ==
    [][ component = "supervisor"
        => /\ (pc = "wait" /\ pc' # "wait" /\ ret' = "True")
              => LET status == get_status'
                 IN  processes'[cur.name] = 0 /\ status[cur.name] = "stopped"
           /\ (pc = "stopping" /\ pc' = "ready")
              => \A name \in Watchers : processes'[name] = 0
      ]_vars

\* stop_all_watchers has returned and a killed worker's handle is still in the
\* table, reported as running
C32_StopAllLeftKilledHandle ==
    /\ component = "supervisor" /\ pc = "ready" /\ ret = "None"
    /\ \E name \in Watchers :
          /\ processes[name] # 0
          /\ processes[name] \notin alive
          /\ get_status[name] = "running"

\* C37: get_status reports a watcher as running only if its worker process is
\* alive; a worker that exited on its own after being started is not reported
\* as running.
C37_RunningOnlyIfAlive ==
    component = "supervisor"
    => \A name \in Watchers :
          get_status[name] = "running" => processes[name] \in alive

\* the only worker ever started has exited, no stop is in progress, and
\* get_status still reports its name as running
C37_ExitedWorkerReportedRunning ==
    /\ component = "supervisor" /\ pc = "ready" /\ ret = "True"
    /\ launched = 1 /\ alive = {}
    /\ \E name \in Watchers :
          processes[name] = 1 /\ get_status[name] = "running"

\* C36: in a run that is not a dry run, the iteration count in ralph_loop's
\* final state record equals the number of agent invocations of the run: 0
\* when the state predicate ends the run before any invocation, k-1 when it
\* ends the run at the start of cycle k.
C36_FinalIterationsAreInvocations ==
    (component = "orchestrator" /\ ~dry_run /\ state_file.type = "final")
    => /\ state_file.iteration = invocations
       /\ (check_file_movement /\ completed /\ needs_action_count = 0
           /\ last_output # "output with promise")
          => state_file.iteration = iteration - 1

\* the state predicate ended the run at the first cycle, no invocation was
\* made, and the final record says one iteration
C36_FinalRecordCountsUninvokedCycle ==
    /\ component = "orchestrator" /\ ~dry_run /\ check_file_movement
    /\ pc = "done" /\ completed /\ invocations = 0
    /\ state_file = [type |-> "final", iteration |-> 1, completed |-> TRUE]

C33_UnreadEventuallyMaterialized ==
    \A m \in MessageIds : (m \in mailbox) ~> (m \in written)

\* the mailbox holds a page of materialized unread messages and one more; that
\* one is materialized and admitted, the run loop is between two cycles, and
\* another unread message has no record
C33_UnreadLeftBehindFullPage ==
    /\ component = "gmail" /\ backlog = MaxResults
    /\ pc = "idle" /\ items = {} /\ ret = "path"
    /\ \E m \in mailbox :
          /\ m \notin written /\ m \notin processed_ids
          /\ (mailbox \ {m}) # {} /\ (mailbox \ {m}) \subseteq (written \cap processed_ids)

\* the payload copies beside an action record for the same content: the
\* payloads of the work items in Needs_Action
WorkItemPayloads ==
    { c \in PayloadCopies :
        \E n \in DOMAIN needs_action :
           /\ needs_action[n].kind = "record" /\ needs_action[n].whole
           /\ needs_action[n].id = needs_action[c].id }

\* C34: the payload file of a filesystem work item holds the content whose
\* hash its action record carries, and stays so: no step, and in particular no
\* materialization of a later candidate with the same file name and another
\* content, overwrites the payload of a work item whose record is in
\* Needs_Action.
C34_PayloadNeverOverwritten ==
    [][ component = "filesystem"
        => \A c \in WorkItemPayloads :
              \/ needs_action'[c] = needs_action[c]
              \/ \A n \in DOMAIN needs_action' :
                    needs_action'[n].kind = "record"
                    => needs_action'[n].id # needs_action[c].id
      ]_vars

\* two files of the same name and different content were materialized to the
\* end, one after the other, without a failure: both records are in
\* Needs_Action, and the one payload copy holds the later content
C34_EarlierPayloadOverwritten ==
    /\ component = "filesystem" /\ pc = "idle" /\ crashes = 0 /\ faults = 0
    /\ \E n1, n2 \in DOMAIN needs_action, p \in FilePaths :
          /\ needs_action[n1].kind = "record" /\ needs_action[n1].whole
          /\ needs_action[n2].kind = "record" /\ needs_action[n2].whole
          /\ needs_action[n1].id # needs_action[n2].id
          /\ {needs_action[n1].id, needs_action[n2].id} \subseteq processed_files
          /\ PayloadCopies = {DestPath(p)}
          /\ needs_action[DestPath(p)].id = needs_action[n2].id

\* the action records in Needs_Action: the work items
WorkItemRecords == { n \in DOMAIN needs_action : needs_action[n].kind = "record" }

\* C35: the count of Needs_Action that ralph_loop takes at the start of a
\* cycle, and tests as its completion predicate, is the number of work item
\* records in Needs_Action; a payload copy that the filesystem watcher placed
\* there is not counted.
C35_CountIsWorkItems ==
    [][ (component = "orchestrator" /\ iteration' = iteration + 1)
        => needs_action_count' = Cardinality(WorkItemRecords)
      ]_vars

\* Needs_Action has held no record since ralph_loop started, only the copy of
\* a dropped .md file; the first cycle counted one and goes on to invoke the
\* agent
C35_PayloadCountedAsWorkItem ==
    /\ component = "orchestrator" /\ check_file_movement
    /\ drops = 0 /\ WorkItemRecords = {}
    /\ \E n \in DOMAIN needs_action : needs_action[n].kind = "payload" /\ n.ext = "md"
    /\ iteration = 1 /\ needs_action_count = 1 /\ pc = "invoke" /\ ~completed

=============================================================================
